---- MODULE Spec2Model ----
(***************************************************************************)
(* The cars repository of AIVehicleInspection                              *)
(* (src/frontend/contexts/cars-context.tsx, CarsProvider).                 *)
(*                                                                         *)
(* State: the React state `cars` (an ordered list of Car), the wall clock  *)
(* read by Date.now(), the last repository call with its arguments and the *)
(* way its promise settled, and the number of calls made so far.           *)
(* Every repository call enqueues one functional updater                   *)
(* setCars(prev => ...); React applies the updaters in call order, so a    *)
(* call is one atomic step  cars' = updater(cars).  Cars are created by    *)
(* addCar only, so `reports` is always present (car.reports || [] never    *)
(* takes its right-hand side).                                             *)
(***************************************************************************)
EXTENDS Integers, Sequences, FiniteSets, TLC

VARIABLES cars, now, last, calls

\* persistence (CarsProvider's load and save effects over AsyncStorage)
VARIABLES isLoaded,    \* the React state isLoaded
          carsKind,    \* what kind of JavaScript value `cars` holds: "array" unless a
                       \* load put a parsed non-array there; "crashed" once an updater threw
          storage,     \* the durable 'cars' entry of AsyncStorage
          pending,     \* the AsyncStorage operations issued and not yet settled, oldest first
          storedCars,  \* what the getItem of loadCars returned (NotRead before)
          logged       \* the console.error messages written so far

storeVars == <<isLoaded, carsKind, storage, pending, storedCars, logged>>

\* the stage differ (compareStructuredReports): its two arguments and its result
VARIABLES oldResults, newResults, diff, diffPc

diffVars == <<oldResults, newResults, diff, diffPc>>

\* the batch analysis (analyzeBatchCarDamage): its argument, its results so far,
\* its loop index and position, and the calls the vision service has answered
VARIABLES imageUris, batchResults, batchI, batchPc, visionLog

batchVars == <<imageUris, batchResults, batchI, batchPc, visionLog>>

\* the photo check (detectCar): its argument, the draws of Math.random its
\* analyses take, its result and its position
VARIABLES expectedAngle, randoms, detection, detectPc

detectVars == <<expectedAngle, randoms, detection, detectPc>>

\* the damage statistics of the screens: the results of a report, and what the
\* report screen, generateDamageReport and the claims screen have made of them
VARIABLES statResults, stats, statsDone

statsVars == <<statResults, stats, statsDone>>

\* a consumer of the repository (a screen): the cars of the context value its
\* running handler closed over, what its getCar returned, and its position
VARIABLES closureCars, readResult, callerPc

readVars == <<closureCars, readResult, callerPc>>

\* the analyze flow of the photos screen (handleAnalyze): its position, the car
\* of the screen, the uris it analyzes and the JSON text of the results
VARIABLES flowPc, flowCarId, flowUris, flowResults

flowVars == <<flowPc, flowCarId, flowUris, flowResults>>

\* the parts of the application outside the repository and its store
pureVars == <<diffVars, batchVars, detectVars, statsVars, readVars, flowVars>>

vars == <<cars, now, last, calls, storeVars, pureVars>>

(* ---------------------------------------------------------------- bounds *)
MaxCalls == 5    \* repository calls made in one run of the application
MaxClock == 2    \* Date.now() ranges over 1..MaxClock

(* ---------------------------------------------------------- input domains *)
ClockValues == 1..MaxClock

\* carData: Omit<Car, 'id' | 'status' | 'photos'> as passed by the add-car screen
CarDatas ==
    { [make |-> "Toyota", model |-> "Camry", registrationNumber |-> "ABC123"],
      [make |-> "Honda",  model |-> "Civic", registrationNumber |-> "ABC123"] }

PhotoLists  == { <<"p1", "p2", "p3">>, <<"p4">> }
ResultsJson == { "r1", "r2" }
Comparisons == { "c1" }

\* an optional field (`comparison?`, `analysisResults?`): absent or one value
undefined == {}
Some(x)   == {x}

\* Date.now().toString(): the decimal rendering of the clock value
DateNowToString(t) == ToString(t)

UnknownId == "no-such-car"
Ids == { DateNowToString(t) : t \in ClockValues } \cup { UnknownId }

(* ------------------------------------------------------------ pure parts *)
\* addCar: the Car object literal
newCar(carData, t) ==
    [ id                 |-> DateNowToString(t),
      make               |-> carData.make,
      model              |-> carData.model,
      registrationNumber |-> carData.registrationNumber,
      photos             |-> << >>,
      analysisResults    |-> undefined,
      status             |-> "pending_photos",
      reports            |-> << >> ]

\* a slip in addCar: a uniqueness check on the registration number
addCarUpdater_UniqueRegistration(prev, carData, t) ==
    IF \E i \in 1..Len(prev) : prev[i].registrationNumber = carData.registrationNumber
    THEN prev
    ELSE Append(prev, newCar(carData, t))

\* addCar: setCars(prev => [...prev, newCar])
addCarUpdater(prev, carData, t) == Append(prev, newCar(carData, t))

\* a slip in updateCarPhotos: the status is left as it was
updateCarPhotosMap_KeepsStatus(car, id, photos) ==
    IF car.id = id
    THEN [car EXCEPT !.photos = photos]
    ELSE car

\* updateCarPhotos: the callback of prev.map
updateCarPhotosMap(car, id, photos) ==
    IF car.id = id
    THEN [car EXCEPT !.photos = photos, !.status = "completed"]
    ELSE car

updateCarPhotosUpdater(prev, id, photos) ==
    [i \in 1..Len(prev) |-> updateCarPhotosMap(prev[i], id, photos)]

\* a slip in newReport: the stage is the number of existing reports (0-based)
newReport_StageIsCount(car, results, t) ==
    [ stage      |-> Len(car.reports),
      timestamp  |-> t,
      results    |-> results,
      comparison |-> undefined,
      photos     |-> car.photos ]

\* saveAnalysis: the InspectionReport literal
newReport(car, results, t) ==
    [ stage      |-> Len(car.reports) + 1,
      timestamp  |-> t,
      results    |-> results,
      comparison |-> undefined,
      photos     |-> car.photos ]

\* a slip in saveAnalysis: the new report replaces the history
saveAnalysisMap_DropsHistory(car, id, results, t) ==
    IF car.id = id
    THEN [car EXCEPT !.analysisResults = Some(results),
                     !.status          = "analyzed",
                     !.reports         = << newReport(car, results, t) >>]
    ELSE car

\* a slip in saveAnalysis: the report shares no snapshot of the photos
saveAnalysisMap_NoSnapshot(car, id, results, t) ==
    IF car.id = id
    THEN [car EXCEPT !.analysisResults = Some(results),
                     !.status          = "analyzed",
                     !.reports         = Append(car.reports,
                                            [newReport(car, results, t) EXCEPT !.photos = << >>])]
    ELSE car

\* saveAnalysis: the callback of prev.map
saveAnalysisMap(car, id, results, t) ==
    IF car.id = id
    THEN [car EXCEPT !.analysisResults = Some(results),
                     !.status          = "analyzed",
                     !.reports         = Append(car.reports, newReport(car, results, t))]
    ELSE car

saveAnalysisUpdater(prev, id, results, t) ==
    [i \in 1..Len(prev) |-> saveAnalysisMap(prev[i], id, results, t)]

\* a slip in updateLatestReportComparison: index 0 instead of the last index
updateLatestReportComparisonMap_FirstReport(car, id, comparison) ==
    IF car.id = id /\ Len(car.reports) > 0
    THEN [car EXCEPT !.reports[1].comparison = Some(comparison)]
    ELSE car

\* updateLatestReportComparison: the callback of prev.map
updateLatestReportComparisonMap(car, id, comparison) ==
    IF car.id = id /\ Len(car.reports) > 0
    THEN [car EXCEPT !.reports[Len(car.reports)].comparison = Some(comparison)]
    ELSE car

updateLatestReportComparisonUpdater(prev, id, comparison) ==
    [i \in 1..Len(prev) |-> updateLatestReportComparisonMap(prev[i], id, comparison)]

\* a slip in removeCar: the filter keeps the matching cars
removeCarKeep_Inverted(car, id) == car.id = id

\* removeCar: the predicate of prev.filter
removeCarKeep(car, id) == car.id # id

removeCarUpdater(prev, id) ==
    SelectSeq(prev, LAMBDA car : removeCarKeep(car, id))

\* getCar: cars.find(c => c.id === id); the result is absent or the first match
getCar(id) ==
    IF \E i \in 1..Len(cars) : cars[i].id = id
    THEN Some(cars[CHOOSE i \in 1..Len(cars) :
                     /\ cars[i].id = id
                     /\ \A j \in 1..(i-1) : cars[j].id # id])
    ELSE undefined

(* --------------------------------------------------------------- outcomes *)
\* how the promise returned by a call settles: resolved with a value, or rejected
Resolved(v)   == [settled |-> "resolved", value |-> v]
Rejected(e)   == [settled |-> "rejected", value |-> e]
Void          == "undefined"

\* saveAnalysis: the async function body has no throw and no rejected await
saveAnalysisOutcome(prev, id) == Resolved(Void)

(* ------------------------------------------------------------ stage differ *)
\* a JavaScript value that is null or a string (FieldChange.oldValue / newValue)
null   == [isNull |-> TRUE,  str |-> ""]
Str(s) == [isNull |-> FALSE, str |-> s]

\* the differ before it is called
NoDiff == [summary |-> "", angles |-> << >>, overallConfirm |-> FALSE]

DiffIdle ==
    /\ oldResults = << >>
    /\ newResults = << >>
    /\ diff       = NoDiff
    /\ diffPc     = "idle"

\* analyzeBatchCarDamage before it is called
BatchIdle ==
    /\ imageUris = << >>
    /\ batchResults = << >>
    /\ batchI    = 0
    /\ batchPc   = "idle"
    /\ visionLog = << >>

\* detectCar before it has returned anything
NoDetection ==
    [carDetected |-> FALSE, angle |-> undefined, angleScore |-> 0,
     framing |-> undefined, lighting |-> undefined, quality |-> undefined,
     totalScore |-> 0, isAccepted |-> FALSE, hint |-> ""]

\* detectCar before it is called
DetectIdle ==
    /\ expectedAngle = undefined
    /\ randoms       = [angle |-> 0, brightness |-> 0, blur |-> 0]
    /\ detection     = NoDetection
    /\ detectPc      = "idle"

\* no statistic has been computed
NoStats ==
    [rejectedPhotos |-> << >>, damagedPhotos |-> << >>, cleanPhotos |-> << >>,
     damageReport |-> [totalImages |-> 0, damageCount |-> 0,
                       averageSeverity |-> "", summary |-> ""],
     severeCount |-> 0]

StatsIdle ==
    /\ statResults = << >>
    /\ stats       = NoStats
    /\ statsDone   = {}

\* no consumer is looked at
ReadIdle ==
    /\ closureCars = << >>
    /\ readResult  = undefined
    /\ callerPc    = "idle"

\* no analyze flow is running
FlowIdle ==
    /\ flowPc      = "idle"
    /\ flowCarId   = UnknownId
    /\ flowUris    = << >>
    /\ flowResults = ""

\* nothing outside the repository and its store is running
PureIdle == DiffIdle /\ BatchIdle /\ DetectIdle /\ StatsIdle /\ ReadIdle /\ FlowIdle

(* ------------------------------------------------------------ persistence *)
\* A stored string, by what JSON.parse makes of it: no entry at all (getItem
\* returns null), text that is not JSON, or JSON text of a null, a number, an
\* object or an array (of cars).  `items` is the array's content.
Blob(kind, items) == [kind |-> kind, items |-> items]
Absent            == Blob("absent", << >>)
InvalidJson       == Blob("invalid", << >>)
NotRead           == Blob("not-read", << >>)
NonArrayKinds     == {"null", "number", "object"}

\* JSON.stringify(cars): a field that is undefined is left out of the text and
\* is undefined again after JSON.parse, so an array of cars comes back as it went
JSONstringify(kind, cs) == Blob(kind, IF kind = "array" THEN cs ELSE << >>)

\* an AsyncStorage operation on the key 'cars'
GetItem        == [op |-> "getItem",    value |-> Absent]
SetItem(blob)  == [op |-> "setItem",    value |-> blob]
RemoveItem     == [op |-> "removeItem", value |-> Absent]

\* the repository with nothing stored, the load finished and no write in flight
StoreQuiet ==
    /\ isLoaded   = TRUE
    /\ carsKind   = "array"
    /\ storage    = Absent
    /\ pending    = << >>
    /\ storedCars = Absent
    /\ logged     = {}

(* ---------------------------------------------------------------- actions *)
\* the record of a repository call: name, id argument (for addCar the id it
\* returned), the other argument, and how the returned promise settled
Call(op, id, arg, outcome) == [op |-> op, id |-> id, arg |-> arg, outcome |-> outcome]

Init ==
    /\ cars  = << >>
    /\ now   = 1
    /\ last  = Call("none", UnknownId, Void, Resolved(Void))
    /\ calls = 0
    /\ StoreQuiet
    /\ PureIdle

\* the wall clock advances between calls
ClockChange ==
    /\ now < MaxClock
    /\ now' = now + 1
    /\ UNCHANGED <<cars, last, calls>>

addCar ==
    /\ calls < MaxCalls
    /\ \E carData \in CarDatas :
          /\ cars' = addCarUpdater(cars, carData, now)
          /\ last' = Call("addCar", newCar(carData, now).id, carData,
                          Resolved(newCar(carData, now).id))
    /\ calls' = calls + 1
    /\ UNCHANGED now

updateCarPhotos ==
    /\ calls < MaxCalls
    /\ \E id \in Ids, photos \in PhotoLists :
          /\ cars' = updateCarPhotosUpdater(cars, id, photos)
          /\ last' = Call("updateCarPhotos", id, photos, Resolved(Void))
    /\ calls' = calls + 1
    /\ UNCHANGED now

saveAnalysis ==
    /\ calls < MaxCalls
    /\ \E id \in Ids, results \in ResultsJson :
          /\ cars' = saveAnalysisUpdater(cars, id, results, now)
          /\ last' = Call("saveAnalysis", id, results, saveAnalysisOutcome(cars, id))
    /\ calls' = calls + 1
    /\ UNCHANGED now

updateLatestReportComparison ==
    /\ calls < MaxCalls
    /\ \E id \in Ids, comparison \in Comparisons :
          /\ cars' = updateLatestReportComparisonUpdater(cars, id, comparison)
          /\ last' = Call("updateLatestReportComparison", id, comparison, Resolved(Void))
    /\ calls' = calls + 1
    /\ UNCHANGED now

removeCar ==
    /\ calls < MaxCalls
    /\ \E id \in Ids :
          /\ cars' = removeCarUpdater(cars, id)
          /\ last' = Call("removeCar", id, Void, Resolved(Void))
    /\ calls' = calls + 1
    /\ UNCHANGED now

clearAllCars ==
    /\ calls < MaxCalls
    /\ cars' = << >>
    /\ last' = Call("clearAllCars", UnknownId, Void, Resolved(Void))
    /\ calls' = calls + 1
    /\ UNCHANGED now

\* the repository calls alone: the store is left out of the picture
Next ==
    \/ ClockChange /\ UNCHANGED <<storeVars, pureVars>>
    \/ addCar /\ UNCHANGED <<storeVars, pureVars>>
    \/ updateCarPhotos /\ UNCHANGED <<storeVars, pureVars>>
    \/ saveAnalysis /\ UNCHANGED <<storeVars, pureVars>>
    \/ updateLatestReportComparison /\ UNCHANGED <<storeVars, pureVars>>
    \/ removeCar /\ UNCHANGED <<storeVars, pureVars>>
    \/ clearAllCars /\ UNCHANGED <<storeVars, pureVars>>

Spec == Init /\ [][Next]_vars

TypeOK ==
    /\ now \in ClockValues
    /\ calls \in 0..MaxCalls
    /\ Len(cars) <= calls
    /\ \A i \in 1..Len(cars) :
          /\ cars[i].status \in {"pending_photos", "completed", "analyzed"}
          /\ cars[i].id \in Ids
          /\ Len(cars[i].reports) <= calls

(* ------------------------------------------------------------------ helpers *)
CarIdx        == 1..Len(cars)
Matches(id)   == { i \in CarIdx : cars[i].id = id }
HasReports(c) == Len(c.reports) > 0

\* the step is a repository call named op (a clock step makes no call)
Called(op) == calls' = calls + 1 /\ last'.op = op

(* ----------------------------------------------------------------------- C1 *)
\* C1: in every reachable state each car has status 'analyzed' if and only if
\* its reports list is non-empty.
C1_AnalyzedIffHasReports ==
    \A i \in CarIdx : (cars[i].status = "analyzed") <=> HasReports(cars[i])

(* ----------------------------------------------------------------------- C2 *)
\* C2: in every reachable state the report at 0-based position i of a car's
\* reports list has stage i+1 (1-based position j has stage j); stage numbers
\* are therefore strictly increasing in list order and never repeated.
C2_StageIsPosition ==
    \A i \in CarIdx :
        /\ \A j \in 1..Len(cars[i].reports) : cars[i].reports[j].stage = j
        /\ \A j, k \in 1..Len(cars[i].reports) :
              j < k => cars[i].reports[j].stage < cars[i].reports[k].stage

\* a car that went through two analyses, the second by the last call
C2_Witness ==
    /\ last.op = "saveAnalysis"
    /\ \E i \in Matches(last.id) : Len(cars[i].reports) = 2

(* ----------------------------------------------------------------------- C3 *)
\* C3: all cars of the collection have pairwise distinct ids in every
\* reachable state, whatever clock values the addCar calls observed.
C3_DistinctIds ==
    \A i, j \in CarIdx : i # j => cars[i].id # cars[j].id

(* ----------------------------------------------------------------------- C4 *)
\* the identity fields of a car
SameIdentity(c, d) ==
    /\ c.id = d.id /\ c.make = d.make /\ c.model = d.model
    /\ c.registrationNumber = d.registrationNumber

\* C4: saveAnalysis(id, results) appends to every car with that id exactly one
\* report, whose results are the supplied results, whose photos are the car's
\* photos at that moment and whose comparison is unset (stage 1 on a first
\* analysis); it sets the car's status to 'analyzed' and analysisResults to
\* the supplied results and leaves photos and identity fields unchanged.
C4_SaveAnalysisStep ==
    Called("saveAnalysis") =>
        /\ Len(cars') = Len(cars)
        /\ \A i \in Matches(last'.id) :
              LET old == cars[i]
                  new == cars'[i]
                  n   == Len(old.reports)
              IN  /\ Len(new.reports) = n + 1
                  /\ SubSeq(new.reports, 1, n) = old.reports
                  /\ new.reports[n + 1].results = last'.arg
                  /\ new.reports[n + 1].photos = old.photos
                  /\ new.reports[n + 1].comparison = undefined
                  /\ (n = 0 => new.reports[n + 1].stage = 1)
                  /\ new.status = "analyzed"
                  /\ new.analysisResults = Some(last'.arg)
                  /\ new.photos = old.photos
                  /\ SameIdentity(new, old)

C4_SaveAnalysis == [][C4_SaveAnalysisStep]_vars

\* the first analysis of a car holding photos [p1,p2,p3] has just been saved
C4_Witness ==
    /\ last.op = "saveAnalysis"
    /\ \E i \in Matches(last.id) :
          /\ cars[i].photos = <<"p1", "p2", "p3">>
          /\ Len(cars[i].reports) = 1
          /\ cars[i].reports[1].stage = 1
          /\ cars[i].reports[1].photos = <<"p1", "p2", "p3">>
          /\ cars[i].reports[1].results = last.arg
          /\ cars[i].status = "analyzed"

(* ----------------------------------------------------------------------- C5 *)
\* the cars of the current state that the step leaves in the collection, in
\* order: position k of Survivors is position k of cars'
Survivors ==
    CASE Called("removeCar")    -> SelectSeq(cars, LAMBDA c : c.id # last'.id)
      [] Called("clearAllCars") -> << >>
      [] OTHER                  -> cars

\* rs is a prefix of rs2 in which stage, timestamp, results and photos are kept
FrozenPrefix(rs, rs2) ==
    /\ Len(rs) <= Len(rs2)
    /\ \A j \in 1..Len(rs) :
          /\ rs2[j].stage     = rs[j].stage
          /\ rs2[j].timestamp = rs[j].timestamp
          /\ rs2[j].results   = rs[j].results
          /\ rs2[j].photos    = rs[j].photos

\* C5: under every call that does not remove the car, the car's previous
\* reports list is a prefix of its new reports list and every existing report
\* keeps stage, timestamp, results and photos; in particular updateCarPhotos
\* changes the photos snapshot of no existing report.
C5_StagesFrozenStep ==
    /\ Len(cars') >= Len(Survivors)
    /\ \A k \in 1..Len(Survivors) :
          /\ cars'[k].id = Survivors[k].id
          /\ FrozenPrefix(Survivors[k].reports, cars'[k].reports)

C5_StagesFrozen == [][C5_StagesFrozenStep]_vars

\* photos were replaced after an analysis: the report holds the old snapshot
C5_Witness ==
    /\ last.op = "updateCarPhotos"
    /\ \E i \in Matches(last.id) :
          /\ HasReports(cars[i])
          /\ cars[i].photos = last.arg
          /\ cars[i].reports[1].photos # cars[i].photos
          /\ cars[i].reports[1].photos # << >>

(* ----------------------------------------------------------------------- C6 *)
\* C6, first part: updateLatestReportComparison(id, text) on a car with
\* n >= 1 reports sets the comparison of report n to text and changes nothing
\* else of the car; on a car with no report it changes nothing.
C6_ComparisonStep ==
    Called("updateLatestReportComparison") =>
        /\ Len(cars') = Len(cars)
        /\ \A i \in Matches(last'.id) :
              LET old == cars[i]
                  new == cars'[i]
                  n   == Len(old.reports)
              IN  IF n = 0
                  THEN new = old
                  ELSE /\ Len(new.reports) = n
                       /\ new.reports[n].comparison = Some(last'.arg)
                       /\ SubSeq(new.reports, 1, n - 1) = SubSeq(old.reports, 1, n - 1)
                       /\ FrozenPrefix(old.reports, new.reports)
                       /\ new.photos = old.photos
                       /\ new.status = old.status
                       /\ new.analysisResults = old.analysisResults
                       /\ SameIdentity(new, old)

\* C6, second part: once a further report has been appended, no call changes
\* the comparison of an earlier report of a car that stays in the collection.
C6_EarlierComparisonStep ==
    \A k \in 1..Len(Survivors) :
        \A j \in 1..(Len(Survivors[k].reports) - 1) :
            /\ k <= Len(cars')
            /\ j <= Len(cars'[k].reports)
            /\ cars'[k].reports[j].comparison = Survivors[k].reports[j].comparison

C6_LatestComparisonOnly == [][C6_ComparisonStep /\ C6_EarlierComparisonStep]_vars

\* the comparison was just set on a car with two reports: the second carries
\* it, the first does not
C6_Witness ==
    /\ last.op = "updateLatestReportComparison"
    /\ \E i \in Matches(last.id) :
          /\ Len(cars[i].reports) = 2
          /\ cars[i].reports[2].comparison = Some(last.arg)
          /\ cars[i].reports[1].comparison = undefined

(* ----------------------------------------------------------------------- C7 *)
\* C7: saveAnalysis(id, results) with an id that matches no car fails with a
\* NotFound error the caller can observe (and leaves the collection unchanged;
\* saveAnalysis adds and removes no car, so the id matched none before the
\* call exactly if it matches none after it).
C7_SaveAnalysisNotFound ==
    (last.op = "saveAnalysis" /\ Matches(last.id) = {}) =>
        last.outcome = Rejected("NotFound")

(* ----------------------------------------------------------------------- C8 *)
\* C8: updateCarPhotos, updateLatestReportComparison and removeCar raise no
\* error; with an id that matches no car they leave the collection unchanged;
\* with an id that matches they modify or remove only cars with that id and
\* keep every other car and the relative order of the remaining cars.
C8_OtherCarsStep ==
    /\ (Called("updateCarPhotos") \/ Called("updateLatestReportComparison")) =>
          /\ last'.outcome.settled = "resolved"
          /\ Len(cars') = Len(cars)
          /\ \A i \in CarIdx : cars[i].id # last'.id => cars'[i] = cars[i]
          /\ Matches(last'.id) = {} => cars' = cars
    /\ Called("removeCar") =>
          /\ last'.outcome.settled = "resolved"
          /\ cars' = SelectSeq(cars, LAMBDA c : c.id # last'.id)
          /\ Matches(last'.id) = {} => cars' = cars

C8_OtherCarsUntouched == [][C8_OtherCarsStep]_vars

\* one of two cars was just removed and the other one, which holds photos,
\* is still there
C8_Witness ==
    /\ last.op = "removeCar"
    /\ Len(cars) = 1
    /\ cars[1].id # last.id
    /\ last.id # UnknownId
    /\ cars[1].photos # << >>

(* ----------------------------------------------------------------------- C9 *)
\* C9: updateCarPhotos(id, photos) on an existing car replaces the car's
\* photos with exactly the given list and sets its status to 'completed',
\* leaving id, make, model, registrationNumber and the reports unchanged.
C9_UpdateCarPhotosStep ==
    Called("updateCarPhotos") =>
        /\ Len(cars') = Len(cars)
        /\ \A i \in Matches(last'.id) :
              /\ cars'[i].photos = last'.arg
              /\ cars'[i].status = "completed"
              /\ cars'[i].reports = cars[i].reports
              /\ SameIdentity(cars'[i], cars[i])

C9_UpdateCarPhotos == [][C9_UpdateCarPhotosStep]_vars

\* [p1,p2,p3] was just uploaded to a car without stages
C9_Witness ==
    /\ last.op = "updateCarPhotos"
    /\ last.arg = <<"p1", "p2", "p3">>
    /\ \E i \in Matches(last.id) :
          /\ cars[i].photos = <<"p1", "p2", "p3">>
          /\ cars[i].status = "completed"
          /\ cars[i].reports = << >>

(* ---------------------------------------------------------------------- C10 *)
\* C10: addCar always succeeds: it appends exactly one car with the given
\* make, model and registrationNumber, status 'pending_photos', empty photos
\* and empty reports, returns that car's id, and leaves the existing cars
\* unchanged, also when an existing car has the same registration number.
C10_AddCarStep ==
    Called("addCar") =>
        /\ last'.outcome.settled = "resolved"
        /\ Len(cars') = Len(cars) + 1
        /\ SubSeq(cars', 1, Len(cars)) = cars
        /\ LET new == cars'[Len(cars')]
           IN  /\ new.make = last'.arg.make
               /\ new.model = last'.arg.model
               /\ new.registrationNumber = last'.arg.registrationNumber
               /\ new.status = "pending_photos"
               /\ new.photos = << >>
               /\ new.reports = << >>
               /\ last'.outcome.value = new.id

C10_AddCar == [][C10_AddCarStep]_vars

\* a car was just added although an older car has the same registration number
C10_Witness ==
    /\ last.op = "addCar"
    /\ Len(cars) >= 2
    /\ cars[Len(cars)].status = "pending_photos"
    /\ cars[Len(cars)].id = last.outcome.value
    /\ \E i \in 1..(Len(cars) - 1) :
          /\ cars[i].registrationNumber = cars[Len(cars)].registrationNumber
          /\ cars[i].make # cars[Len(cars)].make

(* ======================================================================== *)
(* The repository with its store: loadCars on mount, the save effect after  *)
(* every render that changed cars or isLoaded, clearAllCars's removeItem.   *)
(* AsyncStorage settles the operations on a key in the order they were      *)
(* issued; an operation may fail (its promise is rejected).                 *)
(* ======================================================================== *)
MaxStoreCalls == 3    \* repository calls made in one run with the store in view

\* what the durable entry may hold when the application starts: nothing, text
\* that is not JSON, JSON that is no array, or the cars a previous run saved
SavedCar == [newCar([make |-> "Toyota", model |-> "Camry", registrationNumber |-> "ABC123"], 1)
                EXCEPT !.photos = <<"p1", "p2", "p3">>, !.status = "completed"]

InitialBlobs ==
    { Absent, InvalidJson, Blob("array", << >>), Blob("array", << SavedCar >>) }
        \cup { Blob(k, << >>) : k \in NonArrayKinds }

\* a slip in the save effect: it does not wait for the load
saveEffect_Ungated(loaded, kind, cs, queue) ==
    Append(queue, SetItem(JSONstringify(kind, cs)))

\* a slip in the save effect: an empty collection is not written
saveEffect_SkipsEmpty(loaded, kind, cs, queue) ==
    IF loaded /\ cs # << >> THEN Append(queue, SetItem(JSONstringify(kind, cs))) ELSE queue

\* the save effect: if (isLoaded) AsyncStorage.setItem('cars', JSON.stringify(cars))
saveEffect(loaded, kind, cs, queue) ==
    IF loaded THEN Append(queue, SetItem(JSONstringify(kind, cs))) ELSE queue

\* loadCars, after the await: the cars state it leaves, given what getItem gave.
\* null (no entry) is falsy and a JSON.parse that throws is caught: both leave
\* cars alone; anything else is handed to setCars as parsed.
loadCarsCars(blob, cs) ==
    IF blob.kind \in {"absent", "invalid"} THEN cs ELSE blob.items

\* a slip in loadCars: JSON.parse outside the try block, its error ends the render tree
loadCarsKind_ParseUncaught(blob, kind) ==
    IF blob.kind = "absent" THEN kind
    ELSE IF blob.kind = "invalid" THEN "crashed" ELSE blob.kind

loadCarsKind(blob, kind) ==
    IF blob.kind \in {"absent", "invalid"} THEN kind ELSE blob.kind

\* loadCars: the catch block logs a JSON.parse that threw
loadCarsLogged(blob) ==
    IF blob.kind = "invalid" THEN {"Failed to load cars"} ELSE {}

\* a slip in the save effect: a failed write puts memory back to what is stored
saveFailedCars_RollsBack(cs, stored) == stored.items

\* the save effect's .catch: what a failed setItem leaves in memory
saveFailedCars(cs, stored) == cs

StoreInit ==
    /\ cars       = << >>
    /\ now        = 1
    /\ last       = Call("none", UnknownId, Void, Resolved(Void))
    /\ calls      = 0
    /\ isLoaded   = FALSE
    /\ carsKind   = "array"
    /\ storage    \in InitialBlobs
    /\ pending    = << GetItem >>
    /\ storedCars = NotRead
    /\ logged     = {}
    /\ PureIdle

\* the getItem of loadCars is fulfilled: try { if (storedCars) setCars(JSON.parse(..)) }
\* catch { log } finally { setIsLoaded(true) }, then the render and its save effect
LoadCarsReturns ==
    /\ pending # << >> /\ Head(pending).op = "getItem"
    /\ storedCars' = storage
    /\ cars'       = loadCarsCars(storage, cars)
    /\ carsKind'   = loadCarsKind(storage, carsKind)
    /\ logged'     = logged \cup loadCarsLogged(storage)
    /\ isLoaded'   = TRUE
    /\ pending'    = saveEffect(TRUE, carsKind', cars', Tail(pending))
    /\ UNCHANGED <<storage, now, last, calls>>

\* the getItem of loadCars is rejected: catch { log } finally { setIsLoaded(true) }
LoadCarsFails ==
    /\ pending # << >> /\ Head(pending).op = "getItem"
    /\ logged'   = logged \cup {"Failed to load cars"}
    /\ isLoaded' = TRUE
    /\ pending'  = saveEffect(TRUE, carsKind, cars, Tail(pending))
    /\ UNCHANGED <<cars, carsKind, storage, storedCars, now, last, calls>>

\* a setItem is fulfilled: the entry holds the text written
SetItemDone ==
    /\ pending # << >> /\ Head(pending).op = "setItem"
    /\ storage' = Head(pending).value
    /\ pending' = Tail(pending)
    /\ UNCHANGED <<cars, carsKind, isLoaded, storedCars, logged, now, last, calls>>

\* a setItem is rejected: .catch(e => console.error('Failed to save cars', e))
SetItemFails ==
    /\ pending # << >> /\ Head(pending).op = "setItem"
    /\ logged'  = logged \cup {"Failed to save cars"}
    /\ cars'    = saveFailedCars(cars, storage)
    /\ pending' = Tail(pending)
    /\ UNCHANGED <<carsKind, isLoaded, storage, storedCars, now, last, calls>>

\* the removeItem of clearAllCars is fulfilled
RemoveItemDone ==
    /\ pending # << >> /\ Head(pending).op = "removeItem"
    /\ storage' = Absent
    /\ pending' = Tail(pending)
    /\ UNCHANGED <<cars, carsKind, isLoaded, storedCars, logged, now, last, calls>>

\* the removeItem of clearAllCars is rejected: catch { console.error('Failed to clear cars') }
RemoveItemFails ==
    /\ pending # << >> /\ Head(pending).op = "removeItem"
    /\ logged'  = logged \cup {"Failed to clear cars"}
    /\ pending' = Tail(pending)
    /\ UNCHANGED <<cars, carsKind, isLoaded, storage, storedCars, now, last, calls>>

\* a call that maps, filters or extends the array, then the render and its save effect
StoreMutation ==
    /\ carsKind = "array"
    /\ calls < MaxStoreCalls
    /\ \/ addCar
       \/ updateCarPhotos
       \/ saveAnalysis
       \/ updateLatestReportComparison
       \/ removeCar
    /\ pending' = saveEffect(isLoaded, carsKind, cars', pending)
    /\ UNCHANGED <<isLoaded, carsKind, storage, storedCars, logged>>

\* the same calls when a load left a non-array in cars: the updater
\* ([...prev, newCar], prev.map, prev.filter) throws a TypeError while rendering
StoreMutationThrows ==
    /\ carsKind \in NonArrayKinds
    /\ calls < MaxStoreCalls
    /\ \E op \in {"addCar", "updateCarPhotos", "saveAnalysis",
                   "updateLatestReportComparison", "removeCar"} :
          last' = Call(op, UnknownId, Void, Resolved(Void))
    /\ calls' = calls + 1
    /\ carsKind' = "crashed"
    /\ UNCHANGED <<cars, now, isLoaded, storage, pending, storedCars, logged>>

\* a slip in clearAllCars: removeItem is issued after the render's save effect
StoreClearAllCars_RemoveAfterSave ==
    /\ carsKind # "crashed"
    /\ calls < MaxStoreCalls
    /\ clearAllCars
    /\ carsKind' = "array"
    /\ pending' = Append(saveEffect(isLoaded, "array", cars', pending), RemoveItem)
    /\ UNCHANGED <<isLoaded, storage, storedCars, logged>>

\* clearAllCars: setCars([]), then removeItem is issued at once; the save
\* effect of the following render comes after it
StoreClearAllCars ==
    /\ carsKind # "crashed"
    /\ calls < MaxStoreCalls
    /\ clearAllCars
    /\ carsKind' = "array"
    /\ pending' = saveEffect(isLoaded, "array", cars', Append(pending, RemoveItem))
    /\ UNCHANGED <<isLoaded, storage, storedCars, logged>>

StoreNext ==
    \/ LoadCarsReturns /\ UNCHANGED pureVars
    \/ LoadCarsFails /\ UNCHANGED pureVars
    \/ SetItemDone /\ UNCHANGED pureVars
    \/ SetItemFails /\ UNCHANGED pureVars
    \/ RemoveItemDone /\ UNCHANGED pureVars
    \/ RemoveItemFails /\ UNCHANGED pureVars
    \/ StoreMutation /\ UNCHANGED pureVars
    \/ StoreMutationThrows /\ UNCHANGED pureVars
    \/ StoreClearAllCars /\ UNCHANGED pureVars

SpecStore == StoreInit /\ [][StoreNext]_vars

(* ---------------------------------------------------------------------- C11 *)
\* the durable entry holds no car: it is absent or an empty array
HoldsNoCar(blob) == blob = Absent \/ blob = Blob("array", << >>)

\* C11: after clearAllCars (and no later call) the collection in memory is
\* empty, and once every storage operation has settled, none of them failed,
\* the durable entry holds no car, so that a later load finds no car.
C11_ClearedDurably ==
    (last.op = "clearAllCars" /\ pending = << >> /\ logged = {}) =>
        /\ carsKind = "array" /\ cars = << >>
        /\ HoldsNoCar(storage)

(* ---------------------------------------------------------------------- C12 *)
\* C12: if the stored blob is not valid JSON the load does not fail startup:
\* the parse error is caught (and logged), the load leaves the collection as
\* it was - the empty list of the construction if no call was made before -,
\* isLoaded becomes true and the repository goes on accepting calls.
C12_InvalidJsonStep ==
    (storedCars = NotRead /\ storedCars' = InvalidJson) =>
        /\ cars' = cars
        /\ carsKind' = carsKind /\ carsKind' = "array"
        /\ isLoaded'
        /\ "Failed to load cars" \in logged'
        /\ (calls = 0 => cars' = << >>)
        /\ (calls < MaxStoreCalls => ENABLED StoreMutation)'

C12_InvalidJsonLoad == [][C12_InvalidJsonStep]_vars

\* startup over a blob that is not JSON has finished with an empty collection
C12_Witness ==
    /\ storedCars = InvalidJson
    /\ isLoaded
    /\ carsKind = "array" /\ cars = << >>
    /\ calls = 0
    /\ "Failed to load cars" \in logged

(* ---------------------------------------------------------------------- C13 *)
\* C13: if the stored blob is valid JSON that is no array of cars (null, a
\* number, an object) it is treated like absent data: after the load the
\* collection in memory is the empty list.
C13_WrongShapeIsAbsent ==
    (storedCars.kind \in NonArrayKinds /\ calls = 0) =>
        carsKind = "array" /\ cars = << >>

(* ---------------------------------------------------------------------- C14 *)
\* a setItem settles without the entry taking its text: the write failed
WriteFailed ==
    /\ pending # << >> /\ Head(pending).op = "setItem"
    /\ pending' = Tail(pending)
    /\ storage' # Head(pending).value

\* C14: a failed durable write is only logged: the collection in memory stays
\* as the mutation made it, the call that triggered the write has completed
\* without an error, and the repository goes on accepting calls.
C14_WriteFailedStep ==
    WriteFailed =>
        /\ "Failed to save cars" \in logged'
        /\ cars' = cars /\ carsKind' = carsKind /\ isLoaded' = isLoaded
        /\ last' = last /\ last.outcome.settled = "resolved"
        /\ storage' = storage
        /\ ((carsKind = "array" /\ calls < MaxStoreCalls) => ENABLED StoreMutation)'

C14_WriteFailureOnlyLogged == [][C14_WriteFailedStep]_vars

\* the write of an added car failed: the car is in memory, not in the store
C14_Witness ==
    /\ "Failed to save cars" \in logged
    /\ pending = << >>
    /\ last.op = "addCar" /\ last.outcome.settled = "resolved"
    /\ Len(cars) = 1 /\ cars[1].id = last.id
    /\ storage = Blob("array", << >>)

(* ============================================================ stage differ *)
\* how many photo slots a result array of the differ's inputs may have
MaxSlots == 3

PHOTO_CONFIG ==
    << [label |-> "Front",      expectedAngle |-> "Front"],
       [label |-> "Back",       expectedAngle |-> "Rear"],
       [label |-> "Left Side",  expectedAngle |-> "Side"],
       [label |-> "Right Side", expectedAngle |-> "Side"],
       [label |-> "Interior 1", expectedAngle |-> "Front"],
       [label |-> "Interior 2", expectedAngle |-> "Front"],
       [label |-> "Dashboard",  expectedAngle |-> "Front"],
       [label |-> "Engine",     expectedAngle |-> "Front"],
       [label |-> "Trunk",      expectedAngle |-> "Rear"] >>

\* a GeminiAnalysisResult
Result(hasDamage, damageType, severity, description, recommendations, imageComplete, completenessNote) ==
    [hasDamage |-> hasDamage, damageType |-> damageType, severity |-> severity,
     description |-> description, recommendations |-> recommendations,
     imageComplete |-> imageComplete, completenessNote |-> completenessNote]

\* the results the differ is given: a clean slot, the same slot with another
\* severity, a dented slot, the dented slot described otherwise, and the clean
\* slot with other recommendations, completeness flag and completeness note
Results ==
    { Result(FALSE, "None", "none",     "No damage",         << >>,          TRUE,  undefined),
      Result(FALSE, "None", "moderate", "No damage",         << >>,          TRUE,  undefined),
      Result(TRUE,  "Dent", "moderate", "Dent on door",      << "Repair" >>, TRUE,  undefined),
      Result(TRUE,  "Dent", "moderate", "Deep dent on door", << "Repair" >>, TRUE,  undefined),
      Result(FALSE, "None", "none",     "No damage",         << "Retake" >>, FALSE, Some("Blurry")) }

\* GeminiAnalysisResult[] of at most MaxSlots entries
ResultArrays == UNION { [1..n -> Results] : n \in 0..MaxSlots }

\* arr[i] of JavaScript, i counted from 0: undefined beyond the array
At(arr, i) == IF i < Len(arr) THEN Some(arr[i + 1]) ELSE undefined

\* PHOTO_CONFIG[i]?.label || `Angle ${i + 1}`
AngleLabel(i) ==
    IF i < Len(PHOTO_CONFIG) THEN PHOTO_CONFIG[i + 1].label
                             ELSE "Angle " \o ToString(i + 1)

FieldChange(field, oldValue, newValue, type) ==
    [field |-> field, oldValue |-> oldValue, newValue |-> newValue, type |-> type]

\* if (oldItem.severity !== newItem.severity) angleChanges.push(..)
severityChange(oldItem, newItem) ==
    IF oldItem.severity # newItem.severity
    THEN << FieldChange("Severity", Str(oldItem.severity), Str(newItem.severity), "changed") >>
    ELSE << >>

\* if (oldItem.damageType !== newItem.damageType) angleChanges.push(..)
damageTypeChange(oldItem, newItem) ==
    IF oldItem.damageType # newItem.damageType
    THEN << FieldChange("Damage Type", Str(oldItem.damageType), Str(newItem.damageType), "changed") >>
    ELSE << >>

\* if (oldItem.description !== newItem.description) angleChanges.push(..)
descriptionChange(oldItem, newItem) ==
    IF oldItem.description # newItem.description
    THEN << FieldChange("Description", Str(oldItem.description), Str(newItem.description), "changed") >>
    ELSE << >>

\* x ? 'Yes' : 'No'
YesNo(b) == IF b THEN "Yes" ELSE "No"

\* the comparison takes the rendered text of the new flag for the flag itself
hasDamageChange_ComparesRendered(oldItem, newItem) ==
    IF YesNo(oldItem.hasDamage) # "newItem.hasDamage"
    THEN << FieldChange("Has Damage", Str(YesNo(oldItem.hasDamage)), Str(YesNo(newItem.hasDamage)), "changed") >>
    ELSE << >>

\* if (oldItem.hasDamage !== newItem.hasDamage) angleChanges.push(..)
hasDamageChange(oldItem, newItem) ==
    IF oldItem.hasDamage # newItem.hasDamage
    THEN << FieldChange("Has Damage", Str(YesNo(oldItem.hasDamage)), Str(YesNo(newItem.hasDamage)), "changed") >>
    ELSE << >>

\* the recommendations are compared as a fifth field
fieldChanges_WithRecommendations(oldItem, newItem) ==
    severityChange(oldItem, newItem) \o damageTypeChange(oldItem, newItem)
        \o descriptionChange(oldItem, newItem) \o hasDamageChange(oldItem, newItem)
        \o (IF oldItem.recommendations # newItem.recommendations
            THEN << FieldChange("Recommendations", Str("old"), Str("new"), "changed") >>
            ELSE << >>)

\* the branch of two present items: severity, damage type, description, flag
fieldChanges(oldItem, newItem) ==
    severityChange(oldItem, newItem) \o damageTypeChange(oldItem, newItem)
        \o descriptionChange(oldItem, newItem) \o hasDamageChange(oldItem, newItem)

\* a slot present only in the old array is passed over
angleChanges_IgnoresRemoved(oldSlot, newSlot) ==
    IF oldSlot = undefined /\ newSlot # undefined
    THEN << FieldChange("Record", null, Str("Present"), "added") >>
    ELSE IF oldSlot # undefined /\ newSlot = undefined
    THEN << >>
    ELSE IF oldSlot # undefined /\ newSlot # undefined
    THEN fieldChanges(CHOOSE x \in oldSlot : TRUE, CHOOSE x \in newSlot : TRUE)
    ELSE << >>

\* the if / else if / else if of the loop body over oldResults[i], newResults[i]
angleChanges(oldSlot, newSlot) ==
    IF oldSlot = undefined /\ newSlot # undefined
    THEN << FieldChange("Record", null, Str("Present"), "added") >>
    ELSE IF oldSlot # undefined /\ newSlot = undefined
    THEN << FieldChange("Record", Str("Present"), null, "removed") >>
    ELSE IF oldSlot # undefined /\ newSlot # undefined
    THEN fieldChanges(CHOOSE x \in oldSlot : TRUE, CHOOSE x \in newSlot : TRUE)
    ELSE << >>

\* anglesDiff.push({ label, index: i, hasChanges, changes })
AngleDiff(old, new, i) ==
    LET changes == angleChanges(At(old, i), At(new, i))
    IN  [label |-> AngleLabel(i), index |-> i,
         hasChanges |-> Len(changes) > 0, changes |-> changes]

Max(a, b) == IF a > b THEN a ELSE b

\* every slot is returned, changed or not
compareStructuredReports_Unfiltered(old, new) ==
    LET maxLen           == Max(Len(old), Len(new))
        anglesDiff       == [k \in 1..maxLen |-> AngleDiff(old, new, k - 1)]
        differencesFound == \E k \in 1..maxLen : Len(anglesDiff[k].changes) > 0
    IN  [summary        |-> IF differencesFound
                            THEN "Differences detected between reports."
                            ELSE "No significant structural differences.",
         angles         |-> anglesDiff,
         overallConfirm |-> differencesFound]

compareStructuredReports(old, new) ==
    LET maxLen           == Max(Len(old), Len(new))
        anglesDiff       == [k \in 1..maxLen |-> AngleDiff(old, new, k - 1)]
        differencesFound == \E k \in 1..maxLen : Len(anglesDiff[k].changes) > 0
    IN  [summary        |-> IF differencesFound
                            THEN "Differences detected between reports."
                            ELSE "No significant structural differences.",
         angles         |-> SelectSeq(anglesDiff, LAMBDA a : a.hasChanges),
         overallConfirm |-> differencesFound]

\* the repository has not been called and its store is at rest
RepoIdle ==
    /\ cars  = << >>
    /\ now   = 1
    /\ last  = Call("none", UnknownId, Void, Resolved(Void))
    /\ calls = 0
    /\ StoreQuiet

\* the report screen holds the results of two stages
DiffInit ==
    /\ RepoIdle
    /\ FlowIdle
    /\ BatchIdle
    /\ DetectIdle
    /\ StatsIdle
    /\ ReadIdle
    /\ oldResults \in ResultArrays
    /\ newResults \in ResultArrays
    /\ diff   = NoDiff
    /\ diffPc = "idle"

\* const diff = compareStructuredReports(prevResults, results)
Compare ==
    /\ diffPc = "idle"
    /\ diff' = compareStructuredReports(oldResults, newResults)
    /\ diffPc' = "done"
    /\ UNCHANGED <<oldResults, newResults>>
    /\ UNCHANGED <<cars, now, last, calls, storeVars>>

DiffNext == Compare /\ UNCHANGED <<batchVars, detectVars, statsVars, readVars, flowVars>>

SpecDiff == DiffInit /\ [][DiffNext]_vars

TypeOKDiff ==
    /\ oldResults \in ResultArrays
    /\ newResults \in ResultArrays
    /\ diffPc \in {"idle", "done"}
    /\ diff.overallConfirm \in BOOLEAN

(* ---------------------------------------------------------------------- C15 *)
\* C15: comparing a result array with itself returns no angle, overallConfirm
\* false and the summary 'No significant structural differences.'
C15_SelfDiffEmpty ==
    (diffPc = "done" /\ oldResults = newResults) =>
        /\ diff.angles = << >>
        /\ diff.overallConfirm = FALSE
        /\ diff.summary = "No significant structural differences."

\* an array of three slots, one of them damaged, was compared with itself
C15_Witness ==
    /\ diffPc = "done"
    /\ oldResults = newResults
    /\ Len(oldResults) = 3
    /\ \E k \in 1..3 : oldResults[k].hasDamage
    /\ diff.angles = << >>

(* ---------------------------------------------------------------------- C16 *)
\* the (slot index, changed field name) pairs a result reports
ChangedPairs(d) ==
    UNION { { <<d.angles[k].index, d.angles[k].changes[j].field>> :
                  j \in 1..Len(d.angles[k].changes) } : k \in 1..Len(d.angles) }

SwappedType(t) == IF t = "added" THEN "removed" ELSE IF t = "removed" THEN "added" ELSE t

SwappedChange(c) == FieldChange(c.field, c.newValue, c.oldValue, SwappedType(c.type))

SwappedAngle(a) ==
    [a EXCEPT !.changes = [j \in 1..Len(a.changes) |-> SwappedChange(a.changes[j])]]

\* a result with old and new values exchanged and 'added' for 'removed'
Swapped(d) == [d EXCEPT !.angles = [k \in 1..Len(d.angles) |-> SwappedAngle(d.angles[k])]]

\* C16: comparing A with B and B with A reports the same (slot index, field)
\* pairs and the same overallConfirm; the two results differ only in that old
\* and new values are exchanged and 'added' stands for 'removed'.
C16_SwapSymmetric ==
    diffPc = "done" =>
        LET back == compareStructuredReports(newResults, oldResults)
        IN  /\ ChangedPairs(diff) = ChangedPairs(back)
            /\ diff.overallConfirm = back.overallConfirm
            /\ Swapped(diff) = back

\* arrays of different lengths were compared: a slot was added, another changed
C16_Witness ==
    /\ diffPc = "done"
    /\ Len(oldResults) < Len(newResults)
    /\ \E k \in 1..Len(diff.angles) : diff.angles[k].changes[1].type = "added"
    /\ \E k \in 1..Len(diff.angles) : diff.angles[k].changes[1].type = "changed"

(* ---------------------------------------------------------------------- C17 *)
ComparedFields == {"severity", "damageType", "description", "hasDamage"}

FieldTitle(f) ==
    CASE f = "severity"    -> "Severity"
      [] f = "damageType"  -> "Damage Type"
      [] f = "description" -> "Description"
      [] f = "hasDamage"   -> "Has Damage"

Shown(f, v) == IF f = "hasDamage" THEN Str(YesNo(v)) ELSE Str(v)

\* what the contract asks of slot i, counted from 0
ExpectedChanges(i) ==
    IF i >= Len(oldResults)
    THEN { FieldChange("Record", null, Str("Present"), "added") }
    ELSE IF i >= Len(newResults)
    THEN { FieldChange("Record", Str("Present"), null, "removed") }
    ELSE { FieldChange(FieldTitle(f), Shown(f, oldResults[i + 1][f]),
                       Shown(f, newResults[i + 1][f]), "changed") :
               f \in { g \in ComparedFields : oldResults[i + 1][g] # newResults[i + 1][g] } }

\* C17: for every slot below the longer length the changes are exactly one
\* 'Record' added (slot only in current), one 'Record' removed (slot only in
\* previous), or one 'changed' entry with old and new value per differing field
\* among severity, damageType, description, hasDamage (as 'Yes'/'No'), and
\* nothing else; a slot without such a change is not returned.
C17_ExactChanges ==
    diffPc = "done" =>
        /\ \A k \in 1..Len(diff.angles) :
               diff.angles[k].index \in 0..(Max(Len(oldResults), Len(newResults)) - 1)
        /\ \A i \in 0..(Max(Len(oldResults), Len(newResults)) - 1) :
               LET found == { k \in 1..Len(diff.angles) : diff.angles[k].index = i }
               IN  IF ExpectedChanges(i) = {}
                   THEN found = {}
                   ELSE /\ Cardinality(found) = 1
                        /\ \A k \in found :
                               /\ Len(diff.angles[k].changes) = Cardinality(ExpectedChanges(i))
                               /\ { diff.angles[k].changes[j] :
                                        j \in 1..Len(diff.angles[k].changes) } = ExpectedChanges(i)

\* two reports of three slots differ only in the severity of slot 2
C17_Witness ==
    /\ diffPc = "done"
    /\ Len(oldResults) = 3 /\ Len(newResults) = 3
    /\ oldResults[1] = newResults[1] /\ oldResults[2] = newResults[2]
    /\ oldResults[3].severity = "none"
    /\ newResults[3] = [oldResults[3] EXCEPT !.severity = "moderate"]
    /\ diff.angles =
           << [label |-> "Left Side", index |-> 2, hasChanges |-> TRUE,
               changes |-> << FieldChange("Severity", Str("none"), Str("moderate"), "changed") >>] >>

(* ---------------------------------------------------------------------- C18 *)
\* C18: overallConfirm is true iff angles is non-empty iff the summary is
\* 'Differences detected between reports.' (else 'No significant structural
\* differences.'); every returned angle has hasChanges and a non-empty changes
\* list; the returned indexes strictly ascend.
C18_ResultConsistent ==
    diffPc = "done" =>
        /\ diff.overallConfirm <=> diff.angles # << >>
        /\ diff.overallConfirm <=> diff.summary = "Differences detected between reports."
        /\ ~diff.overallConfirm => diff.summary = "No significant structural differences."
        /\ \A k \in 1..Len(diff.angles) :
               diff.angles[k].hasChanges /\ diff.angles[k].changes # << >>
        /\ \A k \in 1..(Len(diff.angles) - 1) :
               diff.angles[k].index < diff.angles[k + 1].index

\* the first and the last of three slots changed, the middle one did not
C18_Witness ==
    /\ diffPc = "done"
    /\ Len(oldResults) = 3 /\ Len(newResults) = 3
    /\ oldResults[2] = newResults[2]
    /\ Len(diff.angles) = 2
    /\ diff.angles[1].index = 0 /\ diff.angles[2].index = 2
    /\ diff.overallConfirm

(* ========================================================== batch analysis *)
TOTAL_PHOTOS == 9

\* the file a capture of slot k is kept in
Uri(k) == "photo" \o ToString(k)

\* the photos of the capture screen: TOTAL_PHOTOS slots, taken ({uri}) or not ({uri: ''})
Photos ==
    { [k \in 1..TOTAL_PHOTOS |-> [uri |-> IF k \in taken THEN Uri(k) ELSE ""]] :
          taken \in SUBSET (1..TOTAL_PHOTOS) }

\* photos.filter(p => p.uri)
photosWithUri(photos) == SelectSeq(photos, LAMBDA p : p.uri # "")

\* what the vision service may answer for an image
VisionAnswers ==
    { Result(FALSE, "None", "none",  "No damage",    << >>,          TRUE, undefined),
      Result(TRUE,  "Dent", "minor", "Dent on door", << "Repair" >>, TRUE, undefined) }

\* the result of the catch block
AnalysisFailed ==
    Result(FALSE, "Analysis Failed", "none",
           "Could not analyze image due to network or API error.",
           << >>, FALSE, Some("Analysis failed"))

\* const { label } = ...PHOTO_CONFIG[i]: a TypeError when PHOTO_CONFIG[i] is undefined
batchLabel(i) == IF i < Len(PHOTO_CONFIG) THEN Some(PHOTO_CONFIG[i + 1].label) ELSE undefined

\* the failed photo leaves no entry
catchPush_SkipsPhoto(rs) == rs

\* catch (error) { results.push({ .. 'Analysis Failed' .. }) }
catchPush(rs) == Append(rs, AnalysisFailed)

\* handleAnalyze calls analyzeBatchCarDamage(uris) with the photos taken
BatchInit ==
    /\ RepoIdle
    /\ FlowIdle
    /\ DiffIdle
    /\ DetectIdle
    /\ StatsIdle
    /\ ReadIdle
    /\ \E photos \in Photos :
           /\ photosWithUri(photos) # << >>
           /\ imageUris = [k \in 1..Len(photosWithUri(photos)) |-> photosWithUri(photos)[k].uri]
    /\ batchResults   = << >>
    /\ batchI    = 0
    /\ batchPc   = "analyzing"
    /\ visionLog = << >>

\* the try block runs to its end: the vision call is fulfilled, its result is
\* pushed, and a photo that is not the last is followed by the 2 s pause
VisionResolves ==
    /\ batchPc = "analyzing" /\ batchI < Len(imageUris)
    /\ batchLabel(batchI) # undefined
    /\ \E answer \in VisionAnswers :
           /\ visionLog' = Append(visionLog,
                  [uri |-> imageUris[batchI + 1], label |-> batchLabel(batchI),
                   answer |-> Some(answer)])
           /\ batchResults' = Append(batchResults, answer)
    /\ IF batchI < Len(imageUris) - 1
       THEN batchPc' = "pause" /\ batchI' = batchI
       ELSE batchPc' = "analyzing" /\ batchI' = batchI + 1
    /\ UNCHANGED imageUris

\* the try block throws (no PHOTO_CONFIG entry, or the vision call is rejected):
\* the catch block pushes the synthetic result and the loop goes on
VisionRejects ==
    /\ batchPc = "analyzing" /\ batchI < Len(imageUris)
    /\ IF batchLabel(batchI) = undefined
       THEN visionLog' = visionLog
       ELSE visionLog' = Append(visionLog,
                [uri |-> imageUris[batchI + 1], label |-> batchLabel(batchI),
                 answer |-> undefined])
    /\ batchResults' = catchPush(batchResults)
    /\ batchI' = batchI + 1
    /\ UNCHANGED <<imageUris, batchPc>>

\* await new Promise((resolve) => setTimeout(resolve, 2000)) is over
PauseElapses ==
    /\ batchPc = "pause"
    /\ batchPc' = "analyzing"
    /\ batchI' = batchI + 1
    /\ UNCHANGED <<imageUris, batchResults, visionLog>>

\* the loop condition fails: return batchResults
BatchReturns ==
    /\ batchPc = "analyzing" /\ ~(batchI < Len(imageUris))
    /\ batchPc' = "returned"
    /\ UNCHANGED <<imageUris, batchResults, batchI, visionLog>>

BatchNext ==
    \/ VisionResolves /\ UNCHANGED <<cars, now, last, calls, storeVars, diffVars, detectVars, statsVars, readVars, flowVars>>
    \/ VisionRejects /\ UNCHANGED <<cars, now, last, calls, storeVars, diffVars, detectVars, statsVars, readVars, flowVars>>
    \/ PauseElapses /\ UNCHANGED <<cars, now, last, calls, storeVars, diffVars, detectVars, statsVars, readVars, flowVars>>
    \/ BatchReturns /\ UNCHANGED <<cars, now, last, calls, storeVars, diffVars, detectVars, statsVars, readVars, flowVars>>

\* every awaited promise settles: the vision call is fulfilled or rejected, the
\* timer of the pause fires
SpecBatch == BatchInit /\ [][BatchNext]_vars /\ WF_vars(BatchNext)

TypeOKBatch ==
    /\ batchPc \in {"idle", "analyzing", "pause", "returned"}
    /\ batchI \in 0..Len(imageUris)
    /\ Len(imageUris) \in 1..TOTAL_PHOTOS
    /\ \A k \in 1..Len(batchResults) : batchResults[k] \in VisionAnswers \cup {AnalysisFailed}

(* ---------------------------------------------------------------------- C19 *)
\* result k is the answer of the vision call for photo k, or the synthetic
\* result when that call failed
BelongsToPhoto(k) ==
    /\ k <= Len(visionLog)
    /\ visionLog[k].uri = imageUris[k]
    /\ visionLog[k].label = Some(PHOTO_CONFIG[k].label)
    /\ IF visionLog[k].answer = undefined
       THEN batchResults[k] = AnalysisFailed
       ELSE Some(batchResults[k]) = visionLog[k].answer

OnePerPhoto ==
    /\ Len(batchResults) <= Len(imageUris)
    /\ \A k \in 1..Len(batchResults) : BelongsToPhoto(k)
    /\ batchPc = "returned" =>
           Len(batchResults) = Len(imageUris) /\ Len(visionLog) = Len(imageUris)

\* C19: analyzeBatchCarDamage always completes and returns exactly one result
\* per input photo, in input order, whatever calls of the vision service fail:
\* a failed call leaves the synthetic 'Analysis Failed' result at its position
\* and the photos after it are still analyzed.
C19_BatchAlwaysCompletes == [](OnePerPhoto) /\ <>(batchPc = "returned")

\* three photos, the first not from slot 1: the first and the last call failed,
\* the one between them was answered
C19_Witness ==
    /\ batchPc = "returned"
    /\ Len(imageUris) = 3 /\ imageUris[1] # Uri(1)
    /\ batchResults[1] = AnalysisFailed /\ batchResults[3] = AnalysisFailed
    /\ batchResults[2] \in VisionAnswers /\ batchResults[2].hasDamage
    /\ AnalysisFailed.damageType = "Analysis Failed" /\ ~AnalysisFailed.hasDamage
    /\ AnalysisFailed.severity = "none" /\ ~AnalysisFailed.imageComplete

(* ============================================================= photo check *)
QUALITY_THRESHOLD == 65

CarAngles == {"Front", "Rear", "Side"}

\* values of Math.random(), in hundredths
RandomDraws == {0, 24, 25, 49, 50, 51, 70, 71, 84, 85, 99}

Min(a, b) == IF a < b THEN a ELSE b

\* the metadata every image is given
getImageMetadata ==
    [width |-> 1080, height |-> 1920, size |-> 1500000, mimeType |-> "image/jpeg"]

\* megapixels are compared as pixels
analyzeImageQuality(metadata) ==
    LET totalPixels == metadata.width * metadata.height
        size        == metadata.size
        resolution  == IF totalPixels < 500000 THEN "low"
                       ELSE IF totalPixels > 2000000 THEN "high" ELSE "medium"
        quality1    == IF totalPixels < 500000 THEN 70 - 20
                       ELSE IF totalPixels > 20000000 THEN 70 + 10
                       ELSE IF totalPixels > 2000000 THEN 70 + 5 ELSE 70
        quality2    == IF size < 20 THEN quality1 - 50
                       ELSE IF size > 10000 THEN quality1 + 5
                       ELSE IF size > 200 /\ size < 10000 THEN quality1 + 10 ELSE quality1
        hasContent  == ~(totalPixels < 500000) /\ ~(size < 20)
        sizeIndicator == IF size < 20 THEN "too_small_file"
                         ELSE IF size > 200 /\ size < 10000 /\ ~(size > 10000) THEN "typical"
                         ELSE IF totalPixels < 500000 THEN "too_small" ELSE "normal"
    IN  [isRealPhoto |-> hasContent /\ quality2 > 40,
         quality     |-> Min(100, Max(40, quality2)),
         details     |-> [resolution |-> resolution, hasContent |-> hasContent,
                          sizeIndicator |-> sizeIndicator]]

\* brightness in thousandths: 0.3 + Math.random() * 0.4
analyzeBrightness(random) ==
    LET brightness == 300 + 4 * random
    IN  [brightness |-> brightness, isTooDark |-> brightness < 250,
         isTooLight |-> brightness > 850]

\* blur in hundredths
analyzeBlur(random) == [blur |-> random, isBlurry |-> random > 70]

\* the brightness of detectAngle is the constant 0.5, in thousandths here
detectAngle(analysis, random) ==
    LET brightness == 500
        quality    == IF analysis.quality # 0 THEN analysis.quality ELSE 50
    IN  IF quality > 70 /\ brightness > 450 /\ brightness < 750
        THEN IF random < 50 THEN "Front" ELSE IF random < 85 THEN "Rear" ELSE "Side"
        ELSE IF quality > 50
        THEN IF random < 35 THEN "Front" ELSE IF random < 70 THEN "Rear" ELSE "Side"
        ELSE IF random < 33 THEN "Front" ELSE IF random < 66 THEN "Rear" ELSE "Side"

checkFraming(analysis) ==
    IF analysis.details.resolution = "low"
    THEN [isOptimal |-> FALSE, score |-> 10,
          hint |-> "Move closer to the car for better detail and clarity."]
    ELSE IF analysis.quality < 50
    THEN [isOptimal |-> FALSE, score |-> 12,
          hint |-> "Ensure the car fills most of the frame. Move closer."]
    ELSE [isOptimal |-> TRUE, score |-> 24, hint |-> "Framing perfect."]

LightingCheck(isOptimal, hint, score, brightness, hasGlare, hasShadows) ==
    [isOptimal |-> isOptimal, hint |-> hint, score |-> score,
     brightness |-> brightness, hasGlare |-> hasGlare, hasShadows |-> hasShadows]

checkLighting(brightAnalysis) ==
    IF brightAnalysis.isTooDark
    THEN LightingCheck(FALSE, "Image is too dark. Move to brighter area with good light.",
                       8, brightAnalysis.brightness, FALSE, TRUE)
    ELSE IF brightAnalysis.isTooLight
    THEN LightingCheck(FALSE, "Too much glare/reflection. Move away from bright light.",
                       8, brightAnalysis.brightness, TRUE, FALSE)
    ELSE IF brightAnalysis.brightness < 400
    THEN LightingCheck(FALSE, "Lighting too low. Take photo in daylight or well-lit area.",
                       12, brightAnalysis.brightness, FALSE, TRUE)
    ELSE IF brightAnalysis.brightness > 800
    THEN LightingCheck(FALSE, "Too bright/overexposed. Reduce glare and shadows.",
                       12, brightAnalysis.brightness, TRUE, FALSE)
    ELSE LightingCheck(TRUE, "Lighting optimal.", 24, brightAnalysis.brightness, FALSE, FALSE)

QualityCheck(isOptimal, hint, score, blur) ==
    [isOptimal |-> isOptimal, hint |-> hint, score |-> score, blur |-> blur]

checkQuality(blurAnalysis, qualityAnalysis) ==
    IF blurAnalysis.isBlurry
    THEN QualityCheck(FALSE, "Image is blurry. Hold camera steady and retake photo.",
                      5, blurAnalysis.blur)
    ELSE IF blurAnalysis.blur > 50
    THEN QualityCheck(FALSE, "Motion blur detected. Hold camera still when taking photo.",
                      10, blurAnalysis.blur)
    ELSE IF qualityAnalysis.quality < 45
    THEN QualityCheck(FALSE, "Image quality too low. Use higher resolution camera.",
                      8, blurAnalysis.blur)
    ELSE IF qualityAnalysis.quality < 55
    THEN QualityCheck(FALSE, "Image is not clear enough. This is not a car photo.",
                      12, blurAnalysis.blur)
    ELSE QualityCheck(TRUE, "Image quality excellent.", 24, blurAnalysis.blur)

angleNames(angle) == IF angle = "Rear" THEN "Back/Rear" ELSE angle

\* the results of the two early returns
Rejected0(hint) == [NoDetection EXCEPT !.hint = hint]

\* the try block of detectCar, none of its awaited calls throwing
detectCar(expected, draws) ==
    LET qualityAnalysis == analyzeImageQuality(getImageMetadata)
        angle      == detectAngle(analyzeImageQuality(getImageMetadata), draws.angle)
        angleScore == 25
        framing    == checkFraming(analyzeImageQuality(getImageMetadata))
        lighting   == checkLighting(analyzeBrightness(draws.brightness))
        quality    == checkQuality(analyzeBlur(draws.blur), analyzeImageQuality(getImageMetadata))
        totalScore == angleScore + framing.score + lighting.score + quality.score
        isAccepted == totalScore >= QUALITY_THRESHOLD
        hint       == IF ~isAccepted
                      THEN IF ~framing.isOptimal THEN framing.hint
                           ELSE IF ~lighting.isOptimal THEN lighting.hint
                           ELSE IF ~quality.isOptimal THEN quality.hint
                           ELSE "Photo quality is too low. Score: " \o ToString(totalScore)
                                    \o "/100 (need " \o ToString(QUALITY_THRESHOLD) \o "/100)"
                      ELSE "Perfect! Quality Score: " \o ToString(totalScore) \o "/100"
    IN  IF ~qualityAnalysis.details.hasContent \/ qualityAnalysis.quality < 60
        THEN Rejected0("Photo is too unclear or not a car. Please take a clear photo of the car.")
        ELSE IF expected # undefined /\ Some(angle) # expected
        THEN Rejected0("Wrong angle! Expected " \o angleNames(CHOOSE a \in expected : TRUE)
                           \o ", but detected " \o angleNames(angle)
                           \o ". Please take a photo from the correct angle.")
        ELSE [carDetected |-> isAccepted, angle |-> Some(angle), angleScore |-> angleScore,
              framing |-> Some(framing), lighting |-> Some(lighting), quality |-> Some(quality),
              totalScore |-> totalScore, isAccepted |-> isAccepted, hint |-> hint]

\* the result of the catch block of detectCar
detectCarCaught ==
    [carDetected |-> TRUE, angle |-> Some("Front"), angleScore |-> 20,
     framing  |-> Some([isOptimal |-> TRUE, hint |-> "OK", score |-> 20]),
     lighting |-> Some(LightingCheck(TRUE, "OK", 20, 500, FALSE, FALSE)),
     quality  |-> Some(QualityCheck(TRUE, "OK", 20, 0)),
     totalScore |-> 80, isAccepted |-> FALSE,
     hint |-> "Please ensure good angle, framing, and lighting."]

\* detectCar(imageUri, expectedAngle) is called; the draws are those its analyses will take
DetectInit ==
    /\ RepoIdle
    /\ FlowIdle
    /\ DiffIdle
    /\ BatchIdle
    /\ StatsIdle
    /\ ReadIdle
    /\ expectedAngle \in {undefined} \cup { Some(a) : a \in CarAngles }
    /\ randoms \in [angle : RandomDraws, brightness : RandomDraws, blur : RandomDraws]
    /\ detection = NoDetection
    /\ detectPc  = "called"

\* the try block returns
DetectReturns ==
    /\ detectPc = "called"
    /\ detection' = detectCar(expectedAngle, randoms)
    /\ detectPc' = "returned"
    /\ UNCHANGED <<expectedAngle, randoms>>

\* an error is thrown inside the try block: the catch block returns
DetectCatches ==
    /\ detectPc = "called"
    /\ detection' = detectCarCaught
    /\ detectPc' = "returned"
    /\ UNCHANGED <<expectedAngle, randoms>>

DetectNext ==
    \/ DetectReturns /\ UNCHANGED <<cars, now, last, calls, storeVars, diffVars, batchVars, statsVars, readVars, flowVars>>
    \/ DetectCatches /\ UNCHANGED <<cars, now, last, calls, storeVars, diffVars, batchVars, statsVars, readVars, flowVars>>

SpecDetect == DetectInit /\ [][DetectNext]_vars

TypeOKDetect ==
    /\ detectPc \in {"idle", "called", "returned"}
    /\ detection.totalScore \in Nat
    /\ detection.isAccepted \in BOOLEAN
    /\ detection.carDetected \in BOOLEAN

(* ---------------------------------------------------------------------- C20 *)
\* C20: every result detectCar returns has totalScore within 0..100 and
\* isAccepted true exactly when totalScore is at least 65.
C20_AcceptedIffThreshold ==
    detectPc = "returned" =>
        /\ detection.totalScore \in 0..100
        /\ detection.isAccepted <=> detection.totalScore >= 65

(* ---------------------------------------------------------------------- C21 *)
\* the one member of an optional value that is present
The(opt) == CHOOSE x \in opt : TRUE

\* C21: whenever a sub-check of the returned result is not optimal, the hint of
\* the result is the hint of the first non-optimal sub-check in the order
\* framing, lighting, quality.
C21_FirstFailingHint ==
    (/\ detectPc = "returned"
     /\ detection.framing # undefined
     /\ detection.lighting # undefined
     /\ detection.quality # undefined) =>
        /\ ~The(detection.framing).isOptimal =>
               detection.hint = The(detection.framing).hint
        /\ (The(detection.framing).isOptimal /\ ~The(detection.lighting).isOptimal) =>
               detection.hint = The(detection.lighting).hint
        /\ (/\ The(detection.framing).isOptimal
            /\ The(detection.lighting).isOptimal
            /\ ~The(detection.quality).isOptimal) =>
               detection.hint = The(detection.quality).hint

(* ======================================================= damage statistics *)
\* how many results a report of the statistics may have
MaxStatLen == 2

Severities == {"none", "minor", "moderate", "severe"}

\* what the vision service may have answered: its JSON is taken as it comes,
\* so every combination of hasDamage, severity and imageComplete occurs
StatResultValues ==
    { Result(hasDamage, "Dent", severity, "Seen", << >>, imageComplete, undefined) :
          hasDamage \in BOOLEAN, severity \in Severities, imageComplete \in BOOLEAN }

StatResultArrays == UNION { [1..n -> StatResultValues] : n \in 0..MaxStatLen }

\* results.map((r, i) => ({ ...r, index: i }))
WithIndex(rs) == [k \in 1..Len(rs) |-> [result |-> rs[k], index |-> k - 1]]

rejectedPhotos(rs) == SelectSeq(WithIndex(rs), LAMBDA r : ~r.result.imageComplete)

damagedPhotos(rs) ==
    SelectSeq(WithIndex(rs), LAMBDA r : r.result.imageComplete /\ r.result.hasDamage)

cleanPhotos(rs) ==
    SelectSeq(WithIndex(rs), LAMBDA r : r.result.imageComplete /\ ~r.result.hasDamage)

severityOrder(s) ==
    CASE s = "none" -> 0 [] s = "minor" -> 1 [] s = "moderate" -> 2 [] s = "severe" -> 3

RECURSIVE SeveritySum(_)
\* severities.reduce((sum, s) => sum + severityOrder[s], 0)
SeveritySum(severities) ==
    IF severities = << >> THEN 0
    ELSE severityOrder(Head(severities)) + SeveritySum(Tail(severities))

\* Math.round(sum / n) for sum >= 0 and n > 0
RoundedQuotient(sum, n) == (2 * sum + n) \div (2 * n)

generateDamageReport(rs) ==
    LET totalImages == Len(rs)
        damaged     == SelectSeq(rs, LAMBDA r : r.hasDamage)
        damageCount == Len(damaged)
        severities  == [k \in 1..Len(damaged) |-> damaged[k].severity]
        averageSeverity ==
            IF Len(severities) > 0
            THEN LET found == { k \in Severities : severityOrder(k) =
                                    RoundedQuotient(SeveritySum(severities), Len(severities)) }
                 IN  IF found # {} THEN CHOOSE k \in found : TRUE ELSE "minor"
            ELSE "none"
    IN  [totalImages |-> totalImages, damageCount |-> damageCount,
         averageSeverity |-> averageSeverity,
         summary |-> IF damageCount = 0
                     THEN "No damage detected in any photos"
                     ELSE "Damage detected in " \o ToString(damageCount) \o "/"
                              \o ToString(totalImages) \o " photos. Average severity: "
                              \o averageSeverity]

\* results.filter(r => r.severity === 'severe' || r.severity === 'moderate').length
severeCount(rs) ==
    Len(SelectSeq(rs, LAMBDA r : r.severity = "severe" \/ r.severity = "moderate"))

\* the results of a report as the vision service answered them
StatsInit ==
    /\ RepoIdle
    /\ FlowIdle
    /\ DiffIdle
    /\ BatchIdle
    /\ DetectIdle
    /\ ReadIdle
    /\ statResults \in StatResultArrays
    /\ stats     = NoStats
    /\ statsDone = {}

\* the report screen renders its three groups
RenderReport ==
    /\ "report" \notin statsDone
    /\ stats' = [stats EXCEPT !.rejectedPhotos = rejectedPhotos(statResults),
                              !.damagedPhotos  = damagedPhotos(statResults),
                              !.cleanPhotos    = cleanPhotos(statResults)]
    /\ statsDone' = statsDone \cup {"report"}
    /\ UNCHANGED statResults

GenerateDamageReport ==
    /\ "damageReport" \notin statsDone
    /\ stats' = [stats EXCEPT !.damageReport = generateDamageReport(statResults)]
    /\ statsDone' = statsDone \cup {"damageReport"}
    /\ UNCHANGED statResults

\* the claims screen renders the card of the car
RenderClaimItem ==
    /\ "claims" \notin statsDone
    /\ stats' = [stats EXCEPT !.severeCount = severeCount(statResults)]
    /\ statsDone' = statsDone \cup {"claims"}
    /\ UNCHANGED statResults

StatsNext ==
    \/ RenderReport /\ UNCHANGED <<cars, now, last, calls, storeVars, diffVars, batchVars, detectVars, readVars, flowVars>>
    \/ GenerateDamageReport /\ UNCHANGED <<cars, now, last, calls, storeVars, diffVars, batchVars, detectVars, readVars, flowVars>>
    \/ RenderClaimItem /\ UNCHANGED <<cars, now, last, calls, storeVars, diffVars, batchVars, detectVars, readVars, flowVars>>

SpecStats == StatsInit /\ [][StatsNext]_vars

TypeOKStats ==
    /\ statResults \in StatResultArrays
    /\ statsDone \subseteq {"report", "damageReport", "claims"}
    /\ stats.severeCount \in 0..Len(statResults)
    /\ stats.damageReport.damageCount \in 0..Len(statResults)

(* ---------------------------------------------------------------------- C22 *)
\* the results whose image was verified
CompleteResults == SelectSeq(statResults, LAMBDA r : r.imageComplete)

IndexesOf(group) == { group[k].index : k \in 1..Len(group) }

\* C22: a result with imageComplete false is counted in no damage statistic:
\* on the report screen it is in the verification-failed group only, and the
\* damageCount and averageSeverity of generateDamageReport and the issue count
\* of the claims screen are what they are without it.
C22_IncompleteNotCounted ==
    /\ "report" \in statsDone =>
           \A k \in 1..Len(statResults) :
               ~statResults[k].imageComplete =>
                   /\ k - 1 \in IndexesOf(stats.rejectedPhotos)
                   /\ k - 1 \notin IndexesOf(stats.damagedPhotos)
                   /\ k - 1 \notin IndexesOf(stats.cleanPhotos)
    /\ "damageReport" \in statsDone =>
           /\ stats.damageReport.damageCount =
                  Len(SelectSeq(CompleteResults, LAMBDA r : r.hasDamage))
           /\ stats.damageReport.averageSeverity =
                  generateDamageReport(CompleteResults).averageSeverity
    /\ "claims" \in statsDone =>
           stats.severeCount = severeCount(CompleteResults)

(* ---------------------------------------------------------------------- C23 *)
\* initPhotos of the photos screen: the saved photos, then padding to TOTAL_PHOTOS
initPhotos(carPhotos) ==
    IF Len(carPhotos) > 0
    THEN [k \in 1..Max(TOTAL_PHOTOS, Len(carPhotos)) |->
              [uri |-> IF k <= Len(carPhotos) THEN carPhotos[k] ELSE ""]]
    ELSE [k \in 1..TOTAL_PHOTOS |-> [uri |-> ""]]

\* the slot, counted from 1, the user placed the photo in
SlotOf(uri) == CHOOSE k \in 1..TOTAL_PHOTOS : Uri(k) = uri

\* C23: results are aligned to the 9 slots: result i of the analyze flow
\* describes the photo the user placed in slot i, analyzed against the label
\* of slot i, and after save and reload a photo is shown in the slot it was
\* placed in.
C23_SlotAligned ==
    batchPc = "returned" =>
        /\ \A k \in 1..Len(visionLog) :
               /\ SlotOf(visionLog[k].uri) = k
               /\ visionLog[k].label = Some(PHOTO_CONFIG[SlotOf(visionLog[k].uri)].label)
        /\ \A k \in 1..Len(imageUris) :
               initPhotos(imageUris)[SlotOf(imageUris[k])].uri = imageUris[k]

(* ---------------------------------------------------------------------- C24 *)
\* the step after which the vision call of a later photo is in flight
NextCallStarts ==
    /\ batchI' = batchI + 1
    /\ batchPc' = "analyzing"
    /\ batchI' < Len(imageUris)

\* C24: the vision calls are issued one at a time in input order, and the
\* next call starts only when the pause after the call before it is over,
\* whether that call succeeded or failed; no pause follows the last call.
C24_PausedStep ==
    /\ NextCallStarts => batchPc = "pause"
    /\ Len(visionLog') \in {Len(visionLog), Len(visionLog) + 1}
    /\ Len(visionLog') = Len(visionLog) + 1 =>
           visionLog'[Len(visionLog')].uri = imageUris[batchI + 1]
    /\ batchPc' = "pause" => batchI' < Len(imageUris) - 1

C24_SequentialWithPause == [][C24_PausedStep]_vars

(* ---------------------------------------------------------------------- C25 *)
\* the step in which loadCars finishes after a call of the repository, the
\* entry being absent, unreadable or a stored collection
LoadAfterCall ==
    /\ ~isLoaded /\ isLoaded' /\ calls > 0
    /\ storage.kind \notin NonArrayKinds

\* C25: the initial load finishes before the repository is used, so that the
\* result of the load never replaces a collection an earlier call has changed.
C25_LoadStep == LoadAfterCall => cars' = cars /\ carsKind' = carsKind

C25_LoadNeverDiscards == [][C25_LoadStep]_vars

(* ---------------------------------------------------------------------- C26 *)
\* a call of the repository that did not throw, made after the load finished
MutationAfterLoad == calls' = calls + 1 /\ isLoaded /\ carsKind' # "crashed"

\* C26: after the initial load every mutating operation issues a storage
\* write, behind the operations already issued, whose payload is the whole
\* in-memory collection with the effect of that mutation.
C26_WriteIssuedStep ==
    MutationAfterLoad =>
        /\ Len(pending') > Len(pending)
        /\ pending'[Len(pending')] = SetItem(JSONstringify(carsKind', cars'))
        /\ \A k \in 1..Len(pending) : pending'[k] = pending[k]

C26_EveryMutationWritten == [][C26_WriteIssuedStep]_vars

\* the last car was removed after the load: the write of the empty collection
\* is pending
C26_Witness ==
    /\ isLoaded /\ last.op = "removeCar" /\ calls >= 2
    /\ cars = << >> /\ carsKind = "array"
    /\ pending # << >>
    /\ pending[Len(pending)] = SetItem(JSONstringify("array", << >>))

(* ===================================================== reading after a call *)
\* how many calls the consumer makes
MaxReadCalls == 2

\* cars.find((c) => c.id === id) over the cars of one render
find(cs, id) ==
    IF \E i \in 1..Len(cs) : cs[i].id = id
    THEN Some(cs[CHOOSE i \in 1..Len(cs) :
                    /\ cs[i].id = id
                    /\ \A j \in 1..(i-1) : cs[j].id # id])
    ELSE undefined

\* a screen has rendered with the context value of the provider's first render
ReadInit ==
    /\ RepoIdle
    /\ FlowIdle
    /\ DiffIdle
    /\ BatchIdle
    /\ DetectIdle
    /\ StatsIdle
    /\ closureCars = << >>
    /\ readResult  = undefined
    /\ callerPc    = "rendered"

\* a handler of the screen calls a mutating operation: setCars queues the
\* updater, the cars the handler closed over stay what they were
CallerMutates ==
    /\ callerPc = "rendered"
    /\ calls < MaxReadCalls
    /\ \/ addCar
       \/ updateCarPhotos
       \/ saveAnalysis
       \/ updateLatestReportComparison
       \/ removeCar
       \/ clearAllCars
    /\ callerPc' = "called"
    /\ UNCHANGED <<closureCars, readResult>>

\* the same handler, the call having returned (or its promise awaited), calls
\* the getCar of its context value
CallerReads ==
    /\ callerPc = "called"
    /\ readResult' = find(closureCars, last.id)
    /\ callerPc' = "read"
    /\ UNCHANGED <<cars, now, last, calls, closureCars>>

\* the provider and the screen render again: new closures over the new cars
Rerender ==
    /\ callerPc \in {"called", "read"}
    /\ closureCars' = cars
    /\ readResult' = undefined
    /\ callerPc' = "rendered"
    /\ UNCHANGED <<cars, now, last, calls>>

ReadNext ==
    \/ ClockChange /\ UNCHANGED <<storeVars, diffVars, batchVars, detectVars, statsVars, readVars, flowVars>>
    \/ CallerMutates /\ UNCHANGED <<storeVars, diffVars, batchVars, detectVars, statsVars, flowVars>>
    \/ CallerReads /\ UNCHANGED <<storeVars, diffVars, batchVars, detectVars, statsVars, flowVars>>
    \/ Rerender /\ UNCHANGED <<storeVars, diffVars, batchVars, detectVars, statsVars, flowVars>>

SpecRead == ReadInit /\ [][ReadNext]_vars

TypeOKRead ==
    /\ callerPc \in {"idle", "rendered", "called", "read"}
    /\ Len(closureCars) <= Len(cars) + MaxReadCalls
    /\ Cardinality(readResult) <= 1

(* ---------------------------------------------------------------------- C27 *)
\* C27: a mutation is visible to the next read: the getCar(id) a caller issues
\* right after its mutating call has returned gives the car as that call left
\* it (the car just added, the car with its new photos or its new report).
C27_ReadSeesMutation ==
    (callerPc = "read" /\ last.op \in {"addCar", "updateCarPhotos", "saveAnalysis"}) =>
        readResult = find(cars, last.id)

(* ============================================================ analyze flow *)
\* how many calls the rest of the application makes beside the flow
MaxFlowCalls == 3

\* the photos screen is open on no car yet
FlowInit ==
    /\ RepoIdle
    /\ DiffIdle
    /\ BatchIdle
    /\ DetectIdle
    /\ StatsIdle
    /\ ReadIdle
    /\ flowPc      = "closed"
    /\ flowCarId   = UnknownId
    /\ flowUris    = << >>
    /\ flowResults = ""

\* the calls other parts of the application make
OtherCall ==
    /\ calls < MaxFlowCalls
    /\ \/ addCar
       \/ updateCarPhotos
       \/ saveAnalysis
       \/ removeCar
    /\ UNCHANGED flowVars

\* handleAnalyze on the screen of a car: await updateCarPhotos(carId, uris),
\* then analyzeBatchCarDamage(uris) is in flight
HandleAnalyzeStarts ==
    /\ flowPc = "closed"
    /\ \E i \in 1..Len(cars), uris \in PhotoLists :
          /\ flowCarId' = cars[i].id
          /\ flowUris'  = uris
          /\ cars' = updateCarPhotosUpdater(cars, cars[i].id, uris)
          /\ last' = Call("updateCarPhotos", cars[i].id, uris, Resolved(Void))
    /\ calls' = calls + 1
    /\ flowPc' = "analyzing"
    /\ UNCHANGED <<now, flowResults>>

\* analyzeBatchCarDamage returns; resultsJson = JSON.stringify(results)
AnalysisReturns ==
    /\ flowPc = "analyzing"
    /\ flowResults' \in ResultsJson
    /\ flowPc' = "analyzed"
    /\ UNCHANGED <<cars, now, last, calls, flowCarId, flowUris>>

\* await saveAnalysis(carId, resultsJson)
HandleAnalyzeSaves ==
    /\ flowPc = "analyzed"
    /\ cars' = saveAnalysisUpdater(cars, flowCarId, flowResults, now)
    /\ last' = Call("saveAnalysis", flowCarId, flowResults, saveAnalysisOutcome(cars, flowCarId))
    /\ calls' = calls + 1
    /\ flowPc' = "saved"
    /\ UNCHANGED <<now, flowCarId, flowUris, flowResults>>

FlowNext ==
    \/ ClockChange /\ UNCHANGED <<storeVars, pureVars>>
    \/ OtherCall /\ UNCHANGED <<storeVars, diffVars, batchVars, detectVars, statsVars, readVars>>
    \/ HandleAnalyzeStarts /\ UNCHANGED <<storeVars, diffVars, batchVars, detectVars, statsVars, readVars>>
    \/ AnalysisReturns /\ UNCHANGED <<storeVars, diffVars, batchVars, detectVars, statsVars, readVars>>
    \/ HandleAnalyzeSaves /\ UNCHANGED <<storeVars, diffVars, batchVars, detectVars, statsVars, readVars>>

SpecFlow == FlowInit /\ [][FlowNext]_vars

TypeOKFlow ==
    /\ flowPc \in {"idle", "closed", "analyzing", "analyzed", "saved"}
    /\ flowUris \in PhotoLists \cup {<< >>}
    /\ flowResults \in ResultsJson \cup {""}

(* ---------------------------------------------------------------------- C28 *)
\* C28: whatever other calls are made on the car while the analysis is in
\* flight, the report the analyze flow creates has as its photos snapshot
\* exactly the uris that were analyzed to produce its results.
\* the car of the screen is the only car with its id
C28_OneCarOnScreen ==
    Cardinality({ i \in 1..Len(cars) : cars[i].id = flowCarId }) = 1

C28_SnapshotStep ==
    (flowPc = "analyzed" /\ flowPc' = "saved" /\ C28_OneCarOnScreen) =>
        \A i \in 1..Len(cars) :
            cars[i].id = flowCarId =>
                /\ Len(cars'[i].reports) = Len(cars[i].reports) + 1
                /\ cars'[i].reports[Len(cars'[i].reports)].results = flowResults
                /\ cars'[i].reports[Len(cars'[i].reports)].photos = flowUris

C28_SnapshotIsAnalyzed == [][C28_SnapshotStep]_vars

(* ---------------------------------------------------------------------- C29 *)
\* no setItem and no removeItem has been rejected so far
C29_WritesSucceeded ==
    logged \cap {"Failed to save cars", "Failed to clear cars"} = {}

\* C29: provided the storage writes succeed and are applied in the order they
\* were issued, then after the initial load, whenever no storage operation is
\* pending, the durable 'cars' entry is the text of exactly the collection in
\* memory (of a provider whose rendering has not thrown).
C29_StorageCaughtUp ==
    (isLoaded /\ pending = << >> /\ C29_WritesSucceeded /\ carsKind # "crashed") =>
        storage = JSONstringify(carsKind, cars)

\* after clearAllCars and a later addCar every write has settled: the entry
\* holds the one car that is in memory
C29_Witness ==
    /\ isLoaded /\ pending = << >> /\ C29_WritesSucceeded
    /\ calls >= 2
    /\ last.op = "addCar"
    /\ Len(cars) = 1
    /\ storage = Blob("array", cars)

(* ---------------------------------------------------------------------- C30 *)
\* no setItem is among the operations issued and not yet settled
C30_NoSetItem(queue) ==
    \A k \in 1..Len(queue) : queue[k].op # "setItem"

\* C30: until the initial load has finished no setItem on the 'cars' entry is
\* issued and the entry keeps what was stored, whatever calls are made in the
\* meantime; the first setItem is issued by the step that ends the load and
\* writes the collection the load left: the stored cars if getItem gave them,
\* the collection in memory if the load gave up.
C30_GatedStep ==
    /\ ~isLoaded' => (C30_NoSetItem(pending') /\ storage' = storage)
    /\ (~isLoaded /\ isLoaded') =>
          /\ C30_NoSetItem(pending)
          /\ storage' = storage
          /\ pending'[Len(pending')] = SetItem(JSONstringify(carsKind', cars'))
          /\ (storedCars' = storage /\ storage.kind = "array") => cars' = storage.items

C30_NoWriteBeforeLoad == [][C30_GatedStep]_vars

\* addCar was called before the load finished: a car is in memory, cars are
\* stored, and the entry still holds them with no setItem issued
C30_Witness ==
    /\ ~isLoaded
    /\ last.op = "addCar"
    /\ cars # << >>
    /\ storage = Blob("array", << SavedCar >>)
    /\ C30_NoSetItem(pending)

====
